---------------------------- MODULE Spec2Model ----------------------------
(***************************************************************************)
(* Freelance earnings analyzer: the question pipeline                      *)
(* (FreelancerAnalysisChain), the session history (SessionMemory) and the  *)
(* aggregation engine (FreelancerDataAnalyzer).                            *)
(*                                                                         *)
(* Conventions.                                                            *)
(*  - A Python str is a sequence of chunks; a chunk is a whitespace        *)
(*    character or an opaque word.  "a" + "b" is \o, str.strip() is Strip. *)
(*  - A call that may raise evaluates to a record                          *)
(*    [raised |-> BOOLEAN, exc |-> <message>, value |-> <result>].          *)
(*  - A float is an exact rational [kind |-> "num", n, d], Nan or Inf,     *)
(*    except in get_expert_analysis, whose percentage is computed in       *)
(*    IEEE-754 binary64 (see the section "binary64").                      *)
(***************************************************************************)
EXTENDS Integers, Sequences, FiniteSets, TLC

VARIABLES
    df,        \* FreelancerDataAnalyzer.df: [cols, rows]
    history,   \* SessionMemory.history: sequence of [question, answer]
    last       \* the last public call: its name, inputs and outcome

vars == <<df, history, last>>

-----------------------------------------------------------------------------
(* Bounds *)

MaxHist == 6          \* longest history in SpecMemory
MaxN == 7             \* largest n passed to get_history
MaxChainHist == 2     \* longest history in Spec
MaxRows == 2          \* longest enumerated table in SpecAnalyzer

-----------------------------------------------------------------------------
(* Python helpers *)

Min(a, b) == IF a < b THEN a ELSE b
Max(a, b) == IF a > b THEN a ELSE b

Whitespace == {" ", "\n", "\t"}

RECURSIVE LStrip(_)
LStrip(s) ==
    IF s # <<>> /\ Head(s) \in Whitespace THEN LStrip(Tail(s)) ELSE s

RECURSIVE RStrip(_)
RStrip(s) ==
    IF s # <<>> /\ s[Len(s)] \in Whitespace
    THEN RStrip(SubSeq(s, 1, Len(s) - 1))
    ELSE s

StripNothing(s) == s

\* str.strip()
Strip(s) == RStrip(LStrip(s))

\* list[start:] for any integer start (negative counts from the end)
SliceFrom(s, start) ==
    LET lo == IF start < 0 THEN Max(Len(s) + start, 0) ELSE Min(start, Len(s))
    IN  SubSeq(s, lo + 1, Len(s))

Ok(v) == [raised |-> FALSE, exc |-> <<>>, value |-> v]
Raise(e) == [raised |-> TRUE, exc |-> <<e>>, value |-> <<>>]

-----------------------------------------------------------------------------
(* SessionMemory *)

\* SessionMemory.__init__
MemoryInit == <<>>

AddDropsOldest(h, question, answer) ==
    IF Len(h) >= 2
    THEN Append(Tail(h), [question |-> question, answer |-> answer])
    ELSE Append(h, [question |-> question, answer |-> answer])

\* SessionMemory.add
MemoryAdd(h, question, answer) ==
    Append(h, [question |-> question, answer |-> answer])

GetHistoryFirstN(h, n) == SubSeq(h, 1, Min(n, Len(h)))

\* SessionMemory.get_history: self.history[-n:]
GetHistory(h, n) == SliceFrom(h, 0 - n)

\* default of get_history's parameter n
DefaultN == 5


-----------------------------------------------------------------------------
(* Floats as exact rationals, with NaN and infinity *)

RECURSIVE Gcd(_, _)
Gcd(a, b) == IF b = 0 THEN a ELSE Gcd(b, a % b)

Abs(x) == IF x < 0 THEN 0 - x ELSE x

Nan == [kind |-> "nan", n |-> 0, d |-> 1]
Inf == [kind |-> "inf", n |-> 0, d |-> 1]

\* the float n/d (d > 0), in lowest terms
Rat(n, d) ==
    LET g == Gcd(Abs(n), d)
    IN  [kind |-> "num", n |-> n \div g, d |-> d \div g]

IsNum(x) == x.kind = "num"

\* a - b on floats
FSub(a, b) ==
    IF IsNum(a) /\ IsNum(b) THEN Rat(a.n * b.d - b.n * a.d, a.d * b.d)
    ELSE IF a.kind = "inf" /\ IsNum(b) THEN Inf
    ELSE Nan

\* a / b on numpy floats: division by zero yields inf or nan, never raises
FDiv(a, b) ==
    IF IsNum(a) /\ IsNum(b)
    THEN IF b.n = 0
         THEN IF a.n = 0 THEN Nan ELSE Inf
         ELSE IF b.n > 0 THEN Rat(a.n * b.d, a.d * b.n)
              ELSE Rat(0 - a.n * b.d, a.d * (0 - b.n))
    ELSE IF a.kind = "inf" /\ IsNum(b) THEN Inf
    ELSE Nan

\* a * k for an integer k
FScale(a, k) ==
    IF IsNum(a) THEN Rat(a.n * k, a.d) ELSE a

\* the integer nearest to n/d (d > 0), ties to even
RoundHalfEven(n, d) ==
    LET q == n \div d
        r == n % d
    IN  IF 2 * r < d THEN q
        ELSE IF 2 * r > d THEN q + 1
        ELSE IF q % 2 = 0 THEN q ELSE q + 1

\* round(x, 2)
Round2(x) ==
    IF IsNum(x) THEN Rat(RoundHalfEven(100 * x.n, x.d), 100) ELSE x

FLess(a, b) == a.n * b.d < b.n * a.d

\* a + b on numbers
FAdd(a, b) == Rat(a.n * b.d + b.n * a.d, a.d * b.d)

\* Series.sum() of cells that are numbers: 0 for none
RECURSIVE FSum(_)
FSum(xs) ==
    IF xs = <<>> THEN Rat(0, 1)
    ELSE IF Len(xs) = 1 THEN xs[1]
    ELSE LET half == Len(xs) \div 2
         IN  FAdd(FSum(SubSeq(xs, 1, half)),
                  FSum(SubSeq(xs, half + 1, Len(xs))))

\* Series.mean(): NaN cells are skipped, and the mean of nothing is NaN
FMean(xs) ==
    IF xs = <<>> THEN Nan
    ELSE LET t == FSum(xs) IN Rat(t.n, t.d * Len(xs))

\* Series.median(): NaN cells are skipped, and the median of nothing is NaN
FMedian(xs) ==
    IF xs = <<>> THEN Nan
    ELSE LET srt == SortSeq(xs, FLess)
             k == Len(xs)
         IN  IF k % 2 = 1 THEN srt[(k + 1) \div 2]
             ELSE LET t == FSum(<<srt[k \div 2], srt[k \div 2 + 1]>>)
                  IN  Rat(t.n, t.d * 2)

-----------------------------------------------------------------------------
(* binary64: the arithmetic of Python's float on positive values.          *)
(* A double is [e, m]: m is its 53-bit significand, most significant bit   *)
(* first (m[1] = 1), and e the exponent of m[1]; Zero64 is 0.0.            *)

SigBits == 53

\* bits handled by one step of the digit recurrences
Chunk == 13

Zero64 == [e |-> 0, m |-> <<>>]

\* the w binary digits of n < 2^w, most significant first
ToBits(n, w) == [i \in 1..w |-> (n \div 2^(w - i)) % 2]

\* the number a bit string denotes
RECURSIVE BitsToInt(_)
BitsToInt(bits) ==
    IF bits = <<>> THEN 0
    ELSE IF Len(bits) = 1 THEN bits[1]
    ELSE LET h == Len(bits) \div 2
         IN  BitsToInt(SubSeq(bits, 1, h)) * 2^(Len(bits) - h)
             + BitsToInt(SubSeq(bits, h + 1, Len(bits)))

\* the binary digits of n, most significant first, without leading zeros
RECURSIVE IntBits(_)
IntBits(n) == IF n = 0 THEN <<>> ELSE IntBits(n \div 2) \o <<n % 2>>

\* the next k quotient bits of r/d (r < d), Chunk bits at a time, and the
\* remainder left
RECURSIVE DivBits(_, _, _)
DivBits(r, d, k) ==
    IF k = 0 THEN [bits |-> <<>>, rem |-> r]
    ELSE LET w == Min(Chunk, k)
             q == (r * 2^w) \div d
             rest == DivBits((r * 2^w) % d, d, k - w)
         IN  [bits |-> ToBits(q, w) \o rest.bits, rem |-> rest.rem]

\* bits + 1, one bit longer when every bit was 1
IncBits(bits) ==
    LET zeros == {i \in 1..Len(bits) : bits[i] = 0}
    IN  IF zeros = {} THEN <<1>> \o [i \in 1..Len(bits) |-> 0]
        ELSE LET z == CHOOSE i \in zeros : \A j \in zeros : j <= i
             IN  [i \in 1..Len(bits) |->
                     IF i < z THEN bits[i] ELSE IF i = z THEN 1 ELSE 0]

\* the significand rounded up or kept, renormalised to SigBits bits
Round64(bits, e, up) ==
    IF ~up THEN [e |-> e, m |-> bits]
    ELSE LET b == IncBits(bits)
         IN  IF Len(b) > SigBits
             THEN [e |-> e + 1, m |-> SubSeq(b, 1, SigBits)]
             ELSE [e |-> e, m |-> b]

\* n, d scaled by powers of two until d <= n < 2d; e counts the scaling
RECURSIVE Normalise(_, _, _)
Normalise(n, d, e) ==
    IF n < d THEN Normalise(2 * n, d, e - 1)
    ELSE IF n >= 2 * d THEN Normalise(n, 2 * d, e + 1)
    ELSE [n |-> n, d |-> d, e |-> e]

\* a / b for Python ints a >= 0 and b > 0: correctly rounded, ties to even
Div64(a, b) ==
    IF a = 0 THEN Zero64
    ELSE LET s == Normalise(a, b, 0)
             q == DivBits(s.n - s.d, s.d, SigBits - 1)
             bits == <<1>> \o q.bits
             up == \/ 2 * q.rem > s.d
                   \/ 2 * q.rem = s.d /\ bits[SigBits] = 1
         IN  Round64(bits, s.e, up)

\* the exact product bits * k + carry as bits, Chunk bits at a time
RECURSIVE MulCarry(_, _, _)
MulCarry(bits, k, carry) ==
    IF bits = <<>> THEN IntBits(carry)
    ELSE LET w == Min(Chunk, Len(bits))
             cut == Len(bits) - w
             v == BitsToInt(SubSeq(bits, cut + 1, Len(bits))) * k + carry
         IN  MulCarry(SubSeq(bits, 1, cut), k, v \div 2^w)
             \o ToBits(v % 2^w, w)

AnyOne(bits) == \E i \in 1..Len(bits) : bits[i] = 1

\* x * k for a double x and a Python int k >= 2: correctly rounded
Mul64(x, k) ==
    IF x.m = <<>> THEN Zero64
    ELSE LET p == MulCarry(x.m, k, 0)
             kept == SubSeq(p, 1, SigBits)
             low == SubSeq(p, SigBits + 1, Len(p))
             up == /\ low # <<>>
                   /\ low[1] = 1
                   /\ (AnyOne(Tail(low)) \/ kept[SigBits] = 1)
         IN  Round64(kept, x.e + Len(p) - SigBits, up)

\* round(x, 2) for a double 0 <= x < 2^20, as a count of hundredths: the
\* exact value of x rounded to two decimals, ties to even
Round2Hundredths(x) ==
    IF x.m = <<>> THEN 0
    ELSE LET p == MulCarry(x.m, 100, 0)
             nint == x.e + (Len(p) - SigBits) + 1
         IN  IF nint < 0 THEN 0
             ELSE LET ip == BitsToInt(SubSeq(p, 1, nint))
                      fr == SubSeq(p, nint + 1, Len(p))
                      up == /\ fr # <<>>
                            /\ fr[1] = 1
                            /\ (AnyOne(Tail(fr)) \/ ip % 2 = 1)
                  IN  IF up THEN ip + 1 ELSE ip

-----------------------------------------------------------------------------
(* The Record Table *)

\* a missing cell of a text column (pandas reads it as NaN)
NA == "<NaN>"

ExpectedCols ==
    <<"Payment_Method", "Earnings_USD", "Hourly_Rate", "Client_Region",
      "Experience_Level", "Job_Completed", "Job_Success_Rate", "Client_Rating">>

Range(s) == {s[i] : i \in 1..Len(s)}

\* one record: text cells are strings or NA, Job_Completed is an int, the
\* other cells are floats
Row(pm, earn, rate, region, level, jobs, success, rating) ==
    [c \in Range(ExpectedCols) |->
        CASE c = "Payment_Method" -> pm
          [] c = "Earnings_USD" -> earn
          [] c = "Hourly_Rate" -> rate
          [] c = "Client_Region" -> region
          [] c = "Experience_Level" -> level
          [] c = "Job_Completed" -> jobs
          [] c = "Job_Success_Rate" -> success
          [] c = "Client_Rating" -> rating]

\* a loaded DataFrame
Table(cols, rows) == [loaded |-> TRUE, cols |-> cols, rows |-> rows]

\* self.df = None
NoTable == [loaded |-> FALSE, cols |-> <<>>, rows |-> <<>>]

\* MOCK_DATA of the analyzer's tests
MOCK_DATA ==
    Table(ExpectedCols,
      << Row("Crypto", Rat(1000, 1), Rat(50, 1), "EU", "Expert", 120,
             Rat(98, 1), Rat(49, 10)),
         Row("Bank", Rat(800, 1), Rat(40, 1), "US", "Expert", 80,
             Rat(95, 1), Rat(48, 10)),
         Row("Crypto", Rat(1200, 1), Rat(60, 1), "EU", "Intermediate", 50,
             Rat(90, 1), Rat(47, 10)),
         Row("PayPal", Rat(700, 1), Rat(35, 1), "Asia", "Expert", 30,
             Rat(85, 1), Rat(46, 10)) >>)

\* len(df)
DfLen(t) == Len(t.rows)

HasCols(t, cs) == cs \subseteq Range(t.cols)

\* series == value and series != value, elementwise: NaN equals nothing
CellEq(cell, value) == cell # NA /\ cell = value
CellNeSkipsNaN(cell, value) == cell # NA /\ cell # value
CellNe(cell, value) == ~CellEq(cell, value)

\* df[col] as a sequence of cells
Series(rows, col) == [i \in 1..Len(rows) |-> rows[i][col]]

\* the cells of a float column that are not NaN
Valid(rows, col) == SelectSeq(Series(rows, col), IsNum)

-----------------------------------------------------------------------------
(* FreelancerCSVLoader *)

\* what a path resolves to on disk: nothing, a directory, or a CSV file
\* holding a table
Missing == [kind |-> "missing"]
Directory == [kind |-> "dir"]
CsvFile(t) == [kind |-> "file", table |-> t]

\* self.path.exists()
PathExists(entry) == entry.kind # "missing"

\* pd.read_csv(self.path)
ReadCsv(entry) ==
    CASE entry.kind = "file" -> Ok(entry.table)
      [] entry.kind = "dir" -> Raise("IsADirectoryError")
      [] entry.kind = "missing" -> Raise("FileNotFoundError")

LoadNoCheck(entry) == ReadCsv(entry)

\* FreelancerCSVLoader.load
Load(entry) ==
    IF ~PathExists(entry) THEN Raise("DataFileNotFound") ELSE ReadCsv(entry)

-----------------------------------------------------------------------------
(* FreelancerDataAnalyzer *)

EmptyDict == <<>>

\* the dtype pandas infers for a column
DType(t, c) ==
    LET cells == Series(t.rows, c)
        text == c \in {"Payment_Method", "Client_Region", "Experience_Level"}
    IN  IF cells = <<>> THEN "object"
        ELSE IF text
             THEN IF \A i \in 1..Len(cells) : cells[i] = NA
                  THEN "float64" ELSE "object"
             ELSE IF c = "Job_Completed" THEN "int64" ELSE "float64"

IsMissing(c, cell) ==
    IF c \in {"Payment_Method", "Client_Region", "Experience_Level"}
    THEN cell = NA
    ELSE IF c = "Job_Completed" THEN FALSE ELSE ~IsNum(cell)

\* get_data_info
GetDataInfo(t) ==
    IF ~t.loaded THEN Ok(EmptyDict)
    ELSE Ok([total_records |-> DfLen(t),
             columns |-> t.cols,
             data_types |-> [c \in Range(t.cols) |-> DType(t, c)],
             missing_values |->
                 [c \in Range(t.cols) |->
                     Cardinality({i \in 1..DfLen(t) :
                                    IsMissing(c, t.rows[i][c])})],
             sample_data |->
                 [i \in 1..Min(5, DfLen(t)) |->
                     [c \in Range(t.cols) |-> t.rows[i][c]]]])

\* the keys of df.groupby(col): the distinct values, NaN keys dropped
GroupKeys(rows, col) == {rows[i][col] : i \in 1..Len(rows)} \ {NA}

Group(rows, col, key) == SelectSeq(rows, LAMBDA r : r[col] = key)

\* one group of get_payment_method_analysis: count is the number of
\* non-NaN Earnings_USD cells of the group
PaymentGroupStats(g) ==
    LET e == Valid(g, "Earnings_USD")
        h == Valid(g, "Hourly_Rate")
    IN  [avg_earnings |-> Round2(FMean(e)),
         median_earnings |-> Round2(FMedian(e)),
         total_freelancers |-> Len(e),
         total_earnings |-> Round2(FSum(e)),
         avg_hourly_rate |-> Round2(FMean(h)),
         median_hourly_rate |-> Round2(FMedian(h))]

\* get_payment_method_analysis
GetPaymentMethodAnalysis(t) ==
    IF ~t.loaded THEN Ok(EmptyDict)
    ELSE IF ~HasCols(t, {"Payment_Method", "Earnings_USD", "Hourly_Rate"})
    THEN Raise("KeyError")
    ELSE Ok([k \in GroupKeys(t.rows, "Payment_Method") |->
                PaymentGroupStats(Group(t.rows, "Payment_Method", k))])

\* one group of get_region_analysis
RegionGroupStats(g) ==
    LET e == Valid(g, "Earnings_USD")
        h == Valid(g, "Hourly_Rate")
    IN  [avg_earnings |-> Round2(FMean(e)),
         median_earnings |-> Round2(FMedian(e)),
         total_freelancers |-> Len(e),
         total_earnings |-> Round2(FSum(e)),
         avg_hourly_rate |-> Round2(FMean(h)),
         avg_success_rate |-> Round2(FMean(Valid(g, "Job_Success_Rate"))),
         avg_client_rating |-> Round2(FMean(Valid(g, "Client_Rating")))]

\* get_region_analysis
GetRegionAnalysis(t) ==
    IF ~t.loaded THEN Ok(EmptyDict)
    ELSE IF ~HasCols(t, {"Client_Region", "Earnings_USD", "Hourly_Rate",
                         "Job_Success_Rate", "Client_Rating"})
    THEN Raise("KeyError")
    ELSE Ok([k \in GroupKeys(t.rows, "Client_Region") |->
                RegionGroupStats(Group(t.rows, "Client_Region", k))])

\* round((len(experts_under_100) / len(experts)) * 100, 2), in binary64
ExpertPercentage(under, total) ==
    Rat(Round2Hundredths(Mul64(Div64(under, total), 100)), 100)

\* get_expert_analysis
GetExpertAnalysis(t) ==
    IF ~t.loaded THEN Ok(EmptyDict)
    ELSE IF ~HasCols(t, {"Experience_Level", "Job_Completed"})
    THEN Raise("KeyError")
    ELSE LET experts ==
                 SelectSeq(t.rows,
                        LAMBDA r : CellEq(r["Experience_Level"], "Expert"))
             experts_under_100 ==
                 SelectSeq(experts, LAMBDA r : r["Job_Completed"] < 100)
         IN  IF Len(experts) = 0 THEN Raise("division by zero")
             ELSE IF ~HasCols(t, {"Earnings_USD"}) THEN Raise("KeyError")
             ELSE Ok([total_experts |-> Len(experts),
                      experts_under_100_projects |-> Len(experts_under_100),
                      percentage |->
                          ExpertPercentage(Len(experts_under_100),
                                           Len(experts)),
                      avg_earnings_under_100 |->
                          FMean(Valid(experts_under_100, "Earnings_USD")),
                      avg_earnings_all_experts |->
                          FMean(Valid(experts, "Earnings_USD"))])

\* count, avg_earnings, median_earnings, avg_hourly_rate of one partition
PartitionStats(users) ==
    [count |-> Len(users),
     avg_earnings |-> FMean(Valid(users, "Earnings_USD")),
     median_earnings |-> FMedian(Valid(users, "Earnings_USD")),
     avg_hourly_rate |-> FMean(Valid(users, "Hourly_Rate"))]

\* get_crypto_vs_other_analysis
GetCryptoVsOtherAnalysis(t) ==
    IF ~t.loaded THEN Ok(EmptyDict)
    ELSE IF ~HasCols(t, {"Payment_Method", "Earnings_USD", "Hourly_Rate"})
    THEN Raise("KeyError")
    ELSE LET crypto_users ==
                 SelectSeq(t.rows,
                        LAMBDA r : CellEq(r["Payment_Method"], "Crypto"))
             other_users ==
                 SelectSeq(t.rows,
                        LAMBDA r : CellNe(r["Payment_Method"], "Crypto"))
             c == PartitionStats(crypto_users)
             o == PartitionStats(other_users)
             diff == FSub(c.avg_earnings, o.avg_earnings)
         IN  Ok([crypto_stats |-> c,
                 other_stats |-> o,
                 difference |->
                     [earnings_difference |-> diff,
                      hourly_rate_difference |->
                          FSub(c.avg_hourly_rate, o.avg_hourly_rate),
                      percentage_difference |->
                          Round2(FScale(FDiv(diff, o.avg_earnings), 100))]])

\* FreelancerDataAnalyzer(data_path): self.df = None, then _load_data();
\* df is self.df when the constructor ends, whether it returns or raises
Construct(entry) ==
    LET Loaded(r) ==
            IF r.raised THEN r @@ [df |-> NoTable]
            ELSE Ok("analyzer") @@ [df |-> r.value]
    IN  Loaded(Load(entry))

AllowedMethods ==
    {"groupby", "mean", "median", "sum", "count", "max", "min", "head",
     "tail", "describe", "value_counts", "unique", "sort_values", "filter",
     "query"}

\* "Запрос содержит недопустимые операции"
DisallowedMessage == "Zapros soderzhit nedopustimye operatsii"
\* "Ошибка выполнения запроса: "
QueryErrorPrefix == "Oshibka vypolneniya zaprosa: "

\* the queries of the runs, as token sequences
HeadQuery == <<"head", "(", ")">>
FilterInPlaceQuery ==
    <<"query", "(", "'Job_Completed < 100'", ",", "inplace=True", ")">>
DropQuery == <<"drop", "(", "index=0", ")">>
BrokenQuery == <<"count", "(">>
Queries == {HeadQuery, FilterInPlaceQuery, DropQuery, BrokenQuery}

\* eval(f"self.df.{query}"): the value, and self.df afterwards
Eval(t, query) ==
    CASE query = HeadQuery ->
             Ok(SubSeq(t.rows, 1, Min(5, DfLen(t)))) @@ [df |-> t]
      [] query = FilterInPlaceQuery ->
             IF ~HasCols(t, {"Job_Completed"})
             THEN Raise("UndefinedVariableError") @@ [df |-> t]
             ELSE Ok("None")
                  @@ [df |-> [t EXCEPT !.rows =
                                 SelectSeq(t.rows,
                                     LAMBDA r : r["Job_Completed"] < 100)]]
      [] query = DropQuery ->
             Ok(SubSeq(t.rows, 2, DfLen(t))) @@ [df |-> t]
      [] query = BrokenQuery -> Raise("SyntaxError") @@ [df |-> t]

\* execute_custom_query: the value returned, and self.df afterwards
ExecuteCustomQuery(t, query) ==
    LET Caught(r) ==
            IF r.raised
            THEN Ok(<<QueryErrorPrefix>> \o r.exc) @@ [df |-> r.df]
            ELSE r
    IN  IF ~t.loaded THEN Ok("None") @@ [df |-> t]
        ELSE IF \A i \in 1..Len(query) : query[i] \notin AllowedMethods
        THEN Ok(<<DisallowedMessage>>) @@ [df |-> t]
        ELSE Caught(Eval(t, query))

-----------------------------------------------------------------------------
(* FreelancerAnalysisChain *)

\* "Ошибка при анализе данных: ", transliterated
AnalysisErrorPrefix == "Oshibka pri analize dannykh: "
\* "Для данного типа вопроса требуется дополнительный анализ"
FallbackMessage == "Dlya dannogo tipa voprosa trebuetsya dopolnitelnyi analiz"
\* "Произошла ошибка при обработке вопроса: ", transliterated
ErrorPrefix == "Proizoshla oshibka pri obrabotke voprosa: "

KnownLabels ==
    {"payment_method", "region", "expert", "crypto_comparison", "general_info"}

\* the analyzer method each branch of _get_analysis_data calls
Route(analysis_type) ==
    IF analysis_type = <<"payment_method">> THEN "get_payment_method_analysis"
    ELSE IF analysis_type = <<"region">> THEN "get_region_analysis"
    ELSE IF analysis_type = <<"expert">> THEN "get_expert_analysis"
    ELSE IF analysis_type = <<"crypto_comparison">>
    THEN "get_crypto_vs_other_analysis"
    ELSE "get_data_info"

\* self.data_analyzer.<method>()
CallAnalyzer(t, method) ==
    CASE method = "get_payment_method_analysis" -> GetPaymentMethodAnalysis(t)
      [] method = "get_region_analysis" -> GetRegionAnalysis(t)
      [] method = "get_expert_analysis" -> GetExpertAnalysis(t)
      [] method = "get_crypto_vs_other_analysis" -> GetCryptoVsOtherAnalysis(t)
      [] method = "get_data_info" -> GetDataInfo(t)

IsKnown(analysis_type) ==
    Len(analysis_type) = 1 /\ analysis_type[1] \in KnownLabels

GetAnalysisDataNoCatch(t, analysis_type) ==
    LET Handle(method, r) ==
            IF r.raised
            THEN [r EXCEPT !.value = <<>>] @@ [calls |-> <<method>>]
            ELSE IF IsKnown(analysis_type)
            THEN Ok(r.value) @@ [calls |-> <<method>>]
            ELSE Ok([message |-> <<FallbackMessage>>,
                     general_stats |-> r.value])
                 @@ [calls |-> <<method>>]
    IN  Handle(Route(analysis_type), CallAnalyzer(t, Route(analysis_type)))

GetAnalysisDataNoStats(t, analysis_type) ==
    LET Handle(method, r) ==
            IF r.raised
            THEN Ok([error |-> <<AnalysisErrorPrefix>> \o r.exc])
                 @@ [calls |-> <<method>>]
            ELSE IF IsKnown(analysis_type)
            THEN Ok(r.value) @@ [calls |-> <<method>>]
            ELSE Ok([message |-> <<FallbackMessage>>])
                 @@ [calls |-> <<method>>]
    IN  Handle(Route(analysis_type), CallAnalyzer(t, Route(analysis_type)))

\* _get_analysis_data: the result, and the analyzer methods it called
GetAnalysisData(t, analysis_type) ==
    LET Handle(method, r) ==
            IF r.raised
            THEN Ok([error |-> <<AnalysisErrorPrefix>> \o r.exc])
                 @@ [calls |-> <<method>>]
            ELSE IF IsKnown(analysis_type)
            THEN Ok(r.value) @@ [calls |-> <<method>>]
            ELSE Ok([message |-> <<FallbackMessage>>,
                     general_stats |-> r.value])
                 @@ [calls |-> <<method>>]
    IN  Handle(Route(analysis_type), CallAnalyzer(t, Route(analysis_type)))

RECURSIVE JoinContextNewestFirst(_)
JoinContextNewestFirst(hist) ==
    IF hist = <<>> THEN <<>>
    ELSE LET h == hist[Len(hist)]
             item == <<"Q: ", h.question, "\n", "A: ">> \o h.answer
         IN  IF Len(hist) = 1 THEN item
             ELSE item \o <<"\n">>
                  \o JoinContextNewestFirst(SubSeq(hist, 1, Len(hist) - 1))

\* "\n".join([f"Q: {h['question']}\nA: {h['answer']}" for h in history])
RECURSIVE JoinContext(_)
JoinContext(hist) ==
    IF hist = <<>> THEN <<>>
    ELSE LET h == Head(hist)
             item == <<"Q: ", h.question, "\n", "A: ">> \o h.answer
         IN  IF Tail(hist) = <<>> THEN item
             ELSE item \o <<"\n">> \o JoinContext(Tail(hist))

\* json.dumps(analysis_results, ensure_ascii=False, indent=2, cls=NpEncoder)
JsonDumps(v) == <<"json", v>>

\* the calls of analyze_question that reach outside the chain, in order
Stages == <<"classify", "dispatch", "get_history", "dumps", "interpret", "add">>

\* the calls that can raise on their own: the two LLM chains, json.dumps on
\* a payload it cannot encode, and the memory collaborator
Faults == {"none", "classify", "dumps", "interpret", "add"}

\* the try block of analyze_question.  fault names the call that raises
\* (none: no call does); raw is the classifier's text and answer the
\* interpreter's.  hist is self.memory.history when the block ends.
TryBlock(t, h, question, raw, fault, answer) ==
    LET Run(analysis_type, data) ==
        LET window == GetHistory(h, DefaultN)
            context == IF window # <<>> THEN JoinContext(window) ELSE <<>>
            formatted_results == JsonDumps(data.value)
            base == [question |-> question, analysis_results |-> formatted_results]
            prompt_vars ==
                IF context # <<>> THEN base @@ [context |-> context] ELSE base
            response == <<answer>>
            none == [raised |-> FALSE, exc |-> <<>>, value |-> <<>>, hist |-> h,
                     steps |-> <<>>, calls |-> <<>>, analysis_type |-> <<>>,
                     analysis_results |-> <<>>, prompt_vars |-> <<>>]
        IN  IF fault = "classify"
            THEN [none EXCEPT !.raised = TRUE, !.exc = <<"classification failed">>,
                              !.steps = SubSeq(Stages, 1, 1)]
            ELSE IF data.raised
            THEN [none EXCEPT !.raised = TRUE, !.exc = data.exc,
                              !.steps = SubSeq(Stages, 1, 2),
                              !.calls = data.calls,
                              !.analysis_type = analysis_type]
            ELSE IF fault = "dumps"
            THEN [none EXCEPT !.raised = TRUE, !.exc = <<"not JSON serializable">>,
                              !.steps = SubSeq(Stages, 1, 4),
                              !.calls = data.calls,
                              !.analysis_type = analysis_type,
                              !.analysis_results = data.value]
            ELSE IF fault = "interpret"
            THEN [none EXCEPT !.raised = TRUE, !.exc = <<"interpretation failed">>,
                              !.steps = SubSeq(Stages, 1, 5),
                              !.calls = data.calls,
                              !.analysis_type = analysis_type,
                              !.analysis_results = data.value,
                              !.prompt_vars = prompt_vars]
            ELSE IF fault = "add"
            THEN [none EXCEPT !.raised = TRUE, !.exc = <<"append failed">>,
                              !.steps = Stages,
                              !.calls = data.calls,
                              !.analysis_type = analysis_type,
                              !.analysis_results = data.value,
                              !.prompt_vars = prompt_vars]
            ELSE [none EXCEPT !.value = response,
                              !.hist = MemoryAdd(h, question, response),
                              !.steps = Stages,
                              !.calls = data.calls,
                              !.analysis_type = analysis_type,
                              !.analysis_results = data.value,
                              !.prompt_vars = prompt_vars]
    IN  Run(Strip(raw), GetAnalysisData(t, Strip(raw)))

AnalyzeQuestionCatchesLLMOnly(t, h, question, raw, fault, answer) ==
    LET Except(body) ==
            IF body.raised /\ fault \in {"classify", "interpret"}
            THEN [body EXCEPT !.raised = FALSE,
                              !.value = <<ErrorPrefix>> \o body.exc]
            ELSE body
    IN  Except(TryBlock(t, h, question, raw, fault, answer))

AnalyzeQuestionRecordsErrors(t, h, question, raw, fault, answer) ==
    LET Except(body) ==
            IF body.raised
            THEN [body EXCEPT !.raised = FALSE,
                              !.value = <<ErrorPrefix>> \o body.exc,
                              !.hist = MemoryAdd(h, question,
                                           <<ErrorPrefix>> \o body.exc)]
            ELSE body
    IN  Except(TryBlock(t, h, question, raw, fault, answer))

\* analyze_question: the try block, and "except Exception" around it
AnalyzeQuestion(t, h, question, raw, fault, answer) ==
    LET Except(body) ==
            IF body.raised
            THEN [body EXCEPT !.raised = FALSE,
                              !.value = <<ErrorPrefix>> \o body.exc]
            ELSE body
    IN  Except(TryBlock(t, h, question, raw, fault, answer))

-----------------------------------------------------------------------------
(* Inputs *)

Questions == {"q1", "q2"}
Answers == {"a1"}

\* what the classifier may answer: each known label and two unknown ones,
\* bare and wrapped in whitespace, and texts that are no label at all
RawLabels ==
    LET words == KnownLabels \cup {"other", "Region"}
    IN  {<<w>> : w \in words}
        \cup {<<" ", w, "\n">> : w \in words}
        \cup {<<>>, <<"\n">>, <<"region", " ", "expert">>}

SeqsUpTo(S, n) == UNION {[1..k -> S] : k \in 0..n}

\* the table without one of its columns
DropCol(t, col) ==
    LET keep == SelectSeq(t.cols, LAMBDA c : c # col)
    IN  Table(keep,
              [i \in 1..Len(t.rows) |-> [c \in Range(keep) |-> t.rows[i][c]]])

ExpertRow ==
    Row("Crypto", Rat(1000, 1), Rat(50, 1), "EU", "Expert", 80,
        Rat(98, 1), Rat(49, 10))
OtherRow ==
    Row(NA, Nan, Rat(40, 1), "US", "Intermediate", 120,
        Rat(95, 1), Rat(48, 10))

\* the tables of the pipeline's runs: no record or one, with every expected
\* column or without Earnings_USD
ChainTables ==
    LET full == {Table(ExpectedCols, rows) :
                    rows \in {<<>>, <<ExpertRow>>, <<OtherRow>>}}
    IN  full \cup {DropCol(t, "Earnings_USD") : t \in full}

\* the records of the enumerated tables
RowDomain ==
    {Row(pm, earn, Rat(50, 1), "EU", level, jobs, Rat(98, 1), Rat(49, 10)) :
        pm \in {"Crypto", "Bank", NA},
        earn \in {Nan, Rat(1000, 1)},
        level \in {"Expert", "Intermediate"},
        jobs \in {80, 100}}

\* a table of `total` experts, `under` of them with fewer than 100 jobs
ExpertTable(under, total) ==
    Table(ExpectedCols,
          [i \in 1..total |->
              Row("Bank", Rat(1000, 1), Rat(50, 1), "EU", "Expert",
                  IF i <= under THEN 80 ELSE 120, Rat(98, 1), Rat(49, 10))])

AnalyzerTables ==
    {Table(ExpectedCols, rows) : rows \in SeqsUpTo(RowDomain, MaxRows)}
    \cup {MOCK_DATA, ExpertTable(23, 160)}

\* the tables a CSV file of the runs may hold
FileTables ==
    {Table(ExpectedCols, rows) : rows \in SeqsUpTo(RowDomain, 1)}
    \cup {MOCK_DATA}

\* what data_path may resolve to
Files == {Missing, Directory} \cup {CsvFile(t) : t \in FileTables}

-----------------------------------------------------------------------------
(* Actions *)

\* chain.analyze_question(question), with at most cap entries recorded
AnalyzeQuestionAct(question, raw, fault, answer, cap) ==
    LET Return(out) ==
            /\ history' = out.hist
            /\ last' = [op |-> "analyze_question", question |-> question,
                        raw |-> raw, fault |-> fault, out |-> out]
    IN  /\ Len(history) < cap
        /\ Return(AnalyzeQuestion(df, history, question, raw, fault, answer))
        /\ UNCHANGED df

\* chain._get_analysis_data(analysis_type, question)
GetAnalysisDataAct(analysis_type) ==
    /\ last' = [op |-> "_get_analysis_data", analysis_type |-> analysis_type,
                out |-> GetAnalysisData(df, analysis_type)]
    /\ UNCHANGED <<df, history>>

\* memory.add(question, answer)
AddAct(question, answer, cap) ==
    /\ Len(history) < cap
    /\ history' = MemoryAdd(history, question, answer)
    /\ last' = [op |-> "add", question |-> question, answer |-> answer]
    /\ UNCHANGED df

\* memory.get_history(n)
GetHistoryAct(n) ==
    /\ last' = [op |-> "get_history", n |-> n, out |-> GetHistory(history, n)]
    /\ UNCHANGED <<df, history>>

\* the five analyzer operations, called directly
DataInfoAct ==
    /\ last' = [op |-> "get_data_info", out |-> GetDataInfo(df)]
    /\ UNCHANGED <<df, history>>

PaymentMethodAct ==
    /\ last' = [op |-> "get_payment_method_analysis",
                out |-> GetPaymentMethodAnalysis(df)]
    /\ UNCHANGED <<df, history>>

RegionAct ==
    /\ last' = [op |-> "get_region_analysis", out |-> GetRegionAnalysis(df)]
    /\ UNCHANGED <<df, history>>

ExpertAct ==
    /\ last' = [op |-> "get_expert_analysis", out |-> GetExpertAnalysis(df)]
    /\ UNCHANGED <<df, history>>

CryptoVsOtherAct ==
    /\ last' = [op |-> "get_crypto_vs_other_analysis",
                out |-> GetCryptoVsOtherAnalysis(df)]
    /\ UNCHANGED <<df, history>>

\* FreelancerCSVLoader(path).load()
LoadAct(entry) ==
    /\ last' = [op |-> "load", file |-> entry, out |-> Load(entry)]
    /\ UNCHANGED <<df, history>>

\* FreelancerDataAnalyzer(data_path)
ConstructAct(entry) ==
    LET Return(out) ==
            /\ df' = out.df
            /\ last' = [op |-> "construct", file |-> entry, out |-> out]
    IN  /\ ~df.loaded
        /\ Return(Construct(entry))
        /\ UNCHANGED history

\* analyzer.execute_custom_query(query)
ExecuteCustomQueryAct(query) ==
    LET Return(out) ==
            /\ df' = out.df
            /\ last' = [op |-> "execute_custom_query", query |-> query,
                        out |-> out]
    IN  /\ Return(ExecuteCustomQuery(df, query))
        /\ UNCHANGED history

-----------------------------------------------------------------------------
(* Specifications *)

NoCall == [op |-> "init"]

\* the pipeline: every table of ChainTables, every classifier text, every
\* failing call
Init ==
    /\ df \in ChainTables
    /\ history = MemoryInit
    /\ last = NoCall

Next ==
    \/ \E q \in Questions, raw \in RawLabels, fault \in Faults, a \in Answers :
           AnalyzeQuestionAct(q, raw, fault, a, MaxChainHist)
    \/ \E analysis_type \in RawLabels : GetAnalysisDataAct(analysis_type)

Spec == Init /\ [][Next]_vars

\* the session history: appends, reads and questions, on an empty table
InitMemory ==
    /\ df = Table(ExpectedCols, <<>>)
    /\ history = MemoryInit
    /\ last = NoCall

NextMemory ==
    \/ \E q \in Questions, a \in Answers : AddAct(q, <<a>>, MaxHist)
    \/ \E n \in 0..MaxN : GetHistoryAct(n)
    \/ \E q \in Questions, fault \in {"none", "interpret"}, a \in Answers :
           AnalyzeQuestionAct(q, <<"general_info">>, fault, a, MaxHist + 1)

SpecMemory == InitMemory /\ [][NextMemory]_vars

\* the analyzer: every enumerated table, each operation called directly
InitAnalyzer ==
    /\ df \in AnalyzerTables
    /\ history = MemoryInit
    /\ last = NoCall

NextAnalyzer ==
    \/ DataInfoAct
    \/ PaymentMethodAct
    \/ RegionAct
    \/ ExpertAct
    \/ CryptoVsOtherAct

SpecAnalyzer == InitAnalyzer /\ [][NextAnalyzer]_vars

\* the life of one analyzer: the loader called on its own, the constructor,
\* and then every public operation on the analyzer it returned
InitLifecycle ==
    /\ df = NoTable
    /\ history = MemoryInit
    /\ last = NoCall

NextLifecycle ==
    \/ \E entry \in Files : LoadAct(entry)
    \/ \E entry \in Files : ConstructAct(entry)
    \/ df.loaded /\ DataInfoAct
    \/ df.loaded /\ PaymentMethodAct
    \/ df.loaded /\ RegionAct
    \/ df.loaded /\ ExpertAct
    \/ df.loaded /\ CryptoVsOtherAct
    \/ df.loaded /\ \E query \in Queries : ExecuteCustomQueryAct(query)
    \/ df.loaded /\ \E q \in Questions, raw \in RawLabels, a \in Answers :
           AnalyzeQuestionAct(q, raw, "none", a, 1)

SpecLifecycle == InitLifecycle /\ [][NextLifecycle]_vars

-----------------------------------------------------------------------------
(* Properties of the pipeline (Spec) *)

Asked == last.op = "analyze_question"
Dispatched == last.op = "_get_analysis_data"

BeginsWith(str, prefix) == Len(str) >= 1 /\ str[1] = prefix

\* C1: analyze_question never raises; when a call inside it fails
\* (classification, serialization, interpretation or the history append),
\* what it returns begins with the fixed error phrase.
C1_NeverRaises ==
    Asked =>
        /\ ~last.out.raised
        /\ last.fault # "none" => BeginsWith(last.out.value, ErrorPrefix)

C1_Witness ==
    /\ Asked
    /\ last.fault = "add"
    /\ ~last.out.raised
    /\ BeginsWith(last.out.value, ErrorPrefix)

\* C2: whatever the label, when the analyzer method the dispatcher calls
\* raises, the dispatcher returns a result with an `error` key holding a
\* message, and raises nothing.
C2_AnalyzerErrorBecomesPayload ==
    (Dispatched /\ CallAnalyzer(df, Route(last.analysis_type)).raised) =>
        /\ ~last.out.raised
        /\ "error" \in DOMAIN last.out.value
        /\ BeginsWith(last.out.value.error, AnalysisErrorPrefix)

C2_Witness ==
    /\ Dispatched
    /\ last.analysis_type = <<"expert">>
    /\ GetExpertAnalysis(df).raised
    /\ ~last.out.raised
    /\ "error" \in DOMAIN last.out.value

\* C3: for a label that is none of the five known ones the dispatcher
\* returns the fallback payload: a `message` key, and a `general_stats` key
\* holding the result of get_data_info; it raises nothing.
C3_UnknownLabelFallback ==
    (Dispatched /\ ~(\E w \in KnownLabels : last.analysis_type = <<w>>)) =>
        /\ ~last.out.raised
        /\ {"message", "general_stats"} \subseteq DOMAIN last.out.value
        /\ last.out.value.general_stats = GetDataInfo(df).value

C3_Witness ==
    /\ Dispatched
    /\ last.analysis_type = <<"other">>
    /\ DOMAIN last.out.value = {"message", "general_stats"}
    /\ last.out.value.general_stats.total_records = 1

\* the analyzer operation the specification assigns to each known label
CorrespondingOperation(label) ==
    CASE label = "payment_method" -> "get_payment_method_analysis"
      [] label = "region" -> "get_region_analysis"
      [] label = "expert" -> "get_expert_analysis"
      [] label = "crypto_comparison" -> "get_crypto_vs_other_analysis"
      [] label = "general_info" -> "get_data_info"

\* C4: the classifier's text is trimmed, then routed by label: for each
\* known label, bare or wrapped in whitespace, analyze_question calls the
\* corresponding analyzer operation and no other.
C4_TrimmedLabelRouting ==
    \A w \in KnownLabels :
        (/\ Asked
         /\ last.fault # "classify"
         /\ last.raw \in {<<w>>, <<" ", w, "\n">>})
        => last.out.calls = <<CorrespondingOperation(w)>>

C4_Witness ==
    /\ Asked
    /\ last.raw = <<" ", "region", "\n">>
    /\ last.out.calls = <<"get_region_analysis">>
    /\ last.fault = "none"

\* the entry add(question, answer) records
Entry(question, answer) == [question |-> question, answer |-> answer]

\* C14: a call of analyze_question that returns the interpreter's answer
\* appends exactly one entry, (question, answer), to the history; a call
\* that returns the error string leaves the history as it was; a call whose
\* analyzer method failed and was turned into an `error` payload goes on to
\* the interpreter and is recorded like any other.
C14_RecordedOnSuccess ==
    [][Asked' =>
          /\ IF BeginsWith(last'.out.value, ErrorPrefix)
             THEN history' = history
             ELSE history' =
                      Append(history, Entry(last'.question, last'.out.value))
          /\ ("error" \in DOMAIN last'.out.analysis_results
                 /\ last'.fault = "none") =>
                 /\ last'.out.steps = Stages
                 /\ last'.out.value # <<>>
                 /\ ~BeginsWith(last'.out.value, ErrorPrefix)]_vars

C14_Witness ==
    /\ Asked
    /\ last.fault = "none"
    /\ "error" \in DOMAIN last.out.analysis_results
    /\ last.out.value = <<"a1">>
    /\ Len(history) = 2
    /\ history[2] = Entry(last.question, <<"a1">>)

-----------------------------------------------------------------------------
(* Properties of the session history (SpecMemory) *)

Read == last.op = "get_history"

\* the last k entries of h, oldest first
LastEntries(h, k) == SubSeq(h, Len(h) - k + 1, Len(h))

\* C5: for n >= 1, get_history(n) returns the last min(n, len) entries in
\* insertion order, oldest of the window first; all of them when fewer
\* than n exist.
C5_RecentWindow ==
    (Read /\ last.n >= 1) =>
        last.out = LastEntries(history, Min(last.n, Len(history)))

C5_Witness ==
    /\ Read
    /\ last.n = 5
    /\ Len(history) = 6
    /\ last.out = SubSeq(history, 2, 6)
    /\ history[1] # history[2]

\* C6: for n >= 0, get_history(n) returns at most n entries and at most as
\* many as were appended; get_history(0) returns nothing, as does any read
\* of an empty history.
C6_AtMostN ==
    Read =>
        /\ Len(last.out) <= last.n
        /\ Len(last.out) <= Len(history)
        /\ (last.n = 0 \/ history = <<>>) => last.out = <<>>

IsPrefix(s, t) == Len(s) <= Len(t) /\ SubSeq(t, 1, Len(s)) = s

\* C7: the history is append-only: every step of add, get_history and
\* analyze_question leaves the earlier log a prefix of the later one.
C7_AppendOnly == [][IsPrefix(history, history')]_vars

C7_Witness ==
    /\ Asked
    /\ last.fault = "none"
    /\ Len(history) = MaxHist
    /\ history[MaxHist].question = last.question

\* the steps of analyze_question the order is stated for
OrderedSteps == <<"classify", "dispatch", "get_history", "interpret", "add">>

\* the context text of entries 1..k, oldest first, one "Q: ... A: ..." item
\* per entry
RECURSIVE ContextOf(_, _)
ContextOf(entries, k) ==
    IF k = 0 THEN <<>>
    ELSE LET item == <<"Q: ", entries[k].question, "\n", "A: ">>
                     \o entries[k].answer
         IN  IF k = 1 THEN item
             ELSE ContextOf(entries, k - 1) \o <<"\n">> \o item

\* C16: the steps of one analyze_question call happen in the order
\* classify, dispatch, read history, interpret, append; so the context
\* given to the interpreter is made of the entries recorded before the
\* call, at most the 5 most recent, oldest first, without the entry of the
\* question being answered, and there is no context when the history was
\* empty.
C16_ContextFromEarlierEntries ==
    [][Asked' =>
          LET out == last'.out
              done == SelectSeq(out.steps, LAMBDA x : x # "dumps")
              k == Min(5, Len(history))
              window == SubSeq(history, Len(history) - k + 1, Len(history))
          IN  /\ done = SubSeq(OrderedSteps, 1, Len(done))
              /\ out.value = <<"a1">> => done = OrderedSteps
              /\ out.prompt_vars # <<>> =>
                     IF history = <<>>
                     THEN "context" \notin DOMAIN out.prompt_vars
                     ELSE /\ "context" \in DOMAIN out.prompt_vars
                          /\ out.prompt_vars.context = ContextOf(window, k)]_vars

C16_Witness ==
    /\ Asked
    /\ last.out.value = <<"a1">>
    /\ Len(history) = MaxHist + 1
    /\ history[1] # history[2]
    /\ last.out.prompt_vars.context
           = ContextOf(SubSeq(history, 2, MaxHist), 5)

-----------------------------------------------------------------------------
(* Properties of the analyzer (SpecAnalyzer) *)

RECURSIVE SumOver(_, _)
SumOver(f, keys) ==
    IF keys = {} THEN 0
    ELSE LET k == CHOOSE x \in keys : TRUE
         IN  f[k] + SumOver(f, keys \ {k})

\* C8: get_payment_method_analysis partitions the table: the
\* total_freelancers of the groups add up to the number of records, also
\* when a payment method or an earnings value is missing.
C8_PaymentPartition ==
    (last.op = "get_payment_method_analysis" /\ ~last.out.raised) =>
        SumOver([k \in DOMAIN last.out.value |->
                    last.out.value[k].total_freelancers],
                DOMAIN last.out.value) = DfLen(df)

IsExpert(r) == r["Experience_Level"] = "Expert"

\* round(100 * under / total, 2), as Python evaluates it
ClaimedPercentage(under, total) ==
    Rat(Round2Hundredths(Div64(100 * under, total)), 100)

\* C9: with at least one Expert record, get_expert_analysis returns
\* total_experts = the number of Expert records, experts_under_100_projects
\* = the number of those with fewer than 100 jobs, which is at most
\* total_experts, and percentage = round(100 * under / total, 2).
C9_ExpertPercentage ==
    LET experts == {i \in 1..DfLen(df) : IsExpert(df.rows[i])}
        under == {i \in experts : df.rows[i]["Job_Completed"] < 100}
        v == last.out.value
    IN  (last.op = "get_expert_analysis" /\ experts # {}) =>
            /\ ~last.out.raised
            /\ v.total_experts = Cardinality(experts)
            /\ v.experts_under_100_projects = Cardinality(under)
            /\ v.experts_under_100_projects <= v.total_experts
            /\ v.percentage =
                   ClaimedPercentage(v.experts_under_100_projects,
                                     v.total_experts)

\* C10: get_crypto_vs_other_analysis splits the table in two: a record is
\* counted as crypto exactly when its payment method is "Crypto", every
\* other record (a missing payment method included) is counted as other,
\* and the two counts add up to the number of records.
C10_CryptoPartition ==
    LET crypto == {i \in 1..DfLen(df) :
                      df.rows[i]["Payment_Method"] = "Crypto"}
        v == last.out.value
    IN  last.op = "get_crypto_vs_other_analysis" =>
            /\ ~last.out.raised
            /\ v.crypto_stats.count = Cardinality(crypto)
            /\ v.other_stats.count = DfLen(df) - Cardinality(crypto)
            /\ v.crypto_stats.count + v.other_stats.count = DfLen(df)

C10_Witness ==
    /\ last.op = "get_crypto_vs_other_analysis"
    /\ DfLen(df) = 2
    /\ df.rows[1]["Payment_Method"] = NA
    /\ df.rows[2]["Payment_Method"] = "Crypto"
    /\ last.out.value.crypto_stats.count = 1
    /\ last.out.value.other_stats.count = 1

AnalyzerOps ==
    {"get_data_info", "get_payment_method_analysis", "get_region_analysis",
     "get_expert_analysis", "get_crypto_vs_other_analysis"}

\* C11: each of the five analyzer operations, called on a table with the
\* expected columns and no record, returns a result and does not raise;
\* with no table loaded each returns the empty mapping.
C11_EmptyTableTolerated ==
    (last.op \in AnalyzerOps /\ (~df.loaded \/ DfLen(df) = 0)) =>
        /\ ~last.out.raised
        /\ ~df.loaded => last.out.value = EmptyDict

PaymentGroupKeys ==
    {"avg_earnings", "median_earnings", "total_freelancers",
     "total_earnings", "avg_hourly_rate", "median_hourly_rate"}

\* C12: every group record of get_region_analysis has each key of a
\* get_payment_method_analysis group record (avg_earnings, median_earnings,
\* total_freelancers, total_earnings, avg_hourly_rate, median_hourly_rate)
\* and also avg_success_rate and avg_client_rating.
C12_RegionShape ==
    (last.op = "get_region_analysis" /\ ~last.out.raised) =>
        \A k \in DOMAIN last.out.value :
            PaymentGroupKeys \cup {"avg_success_rate", "avg_client_rating"}
                \subseteq DOMAIN last.out.value[k]

-----------------------------------------------------------------------------
(* Properties of loading and of the analyzer's table (SpecLifecycle) *)

C15_TableImmutable ==
    [][/\ (~df.loaded /\ df'.loaded) =>
              (last'.op = "construct" /\ df' = last'.file.table)
       /\ df.loaded => df' = df]_vars

=============================================================================
